---------------------------- MODULE Spec2Model ----------------------------
(***************************************************************************)
(* A model of the furigana parser and merger, the reading aligner and the  *)
(* pitch-accent database of AJT-Japanese.                                  *)
(*                                                                         *)
(* A Python str is a sequence of one-character strings.  Python positions  *)
(* are 0-based: the character at Python position i of s is s[i + 1].       *)
(* The module is written in ASCII, so the Japanese characters are stood    *)
(* for by letters:                                                         *)
(*     "a", "e"   hiragana            "A", "E"   the same kana in katakana *)
(*     "k", "m"   kanji               "."        the separator U+30FB      *)
(***************************************************************************)
EXTENDS Integers, Sequences, FiniteSets, TLC

VARIABLES
    pc,          \* "start" before the function under study is called, "done" after
    arg,         \* the arguments of the call
    res,         \* what the call returned or raised
    corpus,      \* ACCDB_unicode.csv: Absent or the file of its lines
    derivative,  \* nhk_pronunciation.csv: Absent or the file of its lines
    pickle,      \* nhk_pronunciation.pickle: Absent or the file of what pickle.load gives
    returned     \* the outcome of init() when init() was the latest step, NotCalled otherwise

vars == <<pc, arg, res, corpus, derivative, pickle, returned>>

None == "None"

\* a file that does not exist, and a file with its content: the lines of a text
\* file; for the pickle, the outcome of pickle.load on it
Absent == [exists |-> FALSE, content |-> <<>>]
File(content) == [exists |-> TRUE, content |-> content]

(***************************************************************************)
(* Bounds of the model.                                                    *)
(***************************************************************************)
MaxLen == 5        \* longest text given to find_head_reading_suffix
MaxTokens == 2     \* most tokens in one furigana notation
MaxNotations == 3  \* most notations given to mingle_readings
MaxWord == 2       \* longest raw word, headword and reading given to adjust_reading
MaxMora == 3       \* longest katakana reading and accent string given to format_entry
MaxCode == 2       \* longest nasal or devoiced position code
MaxSeg == 5        \* longest free part of a corpus line given to make_accent_entry
MaxEntries == 3    \* most lines of a corpus given to build_database
MaxDbEntries == 1  \* most lines of a corpus in the life of the database files

(***************************************************************************)
(* Python str helpers.                                                     *)
(***************************************************************************)
Strs(alphabet, n) == UNION {[1..k -> alphabet] : k \in 0..n}

\* a slice bound as Python reads it: a negative bound counts from the end, and
\* every bound is clipped to 0..len(s)
SliceBound(s, i) ==
    LET j == IF i < 0 THEN Len(s) + i ELSE i
    IN  IF j < 0 THEN 0 ELSE IF j > Len(s) THEN Len(s) ELSE j

\* s[lo:hi]
Slice(s, lo, hi) ==
    LET l == SliceBound(s, lo)
        h == SliceBound(s, hi)
    IN  IF l >= h THEN <<>> ELSE SubSeq(s, l + 1, h)

\* s[lo:]
SliceFrom(s, lo) == Slice(s, lo, Len(s))

\* s[:hi]
SliceTo(s, hi) == Slice(s, 0, hi)

\* whether s[i] is an element of s: otherwise Python raises IndexError
IndexInRange(s, i) == -Len(s) <= i /\ i < Len(s)

\* s[i], a negative i counting from the end
At(s, i) == IF i < 0 THEN s[Len(s) + i + 1] ELSE s[i + 1]

\* the outcome of a call: a value returned or an exception raised
Returned(value) == [raised |-> None, value |-> value]
Raised(exception) == [raised |-> exception, value |-> <<>>]
NotCalled == [raised |-> "NotCalled", value |-> <<>>]

RECURSIVE Concat(_)
\* "".join(parts)
Concat(parts) ==
    IF parts = <<>> THEN <<>> ELSE Head(parts) \o Concat(Tail(parts))

RECURSIVE Join(_, _)
\* a local variable: value is computed once, and F is given what it came to
With(value, F(_)) == CHOOSE result \in {F(v) : v \in {value}} : TRUE

\* sep.join(parts)
Join(sep, parts) ==
    IF parts = <<>> THEN <<>>
    ELSE IF Len(parts) = 1 THEN Head(parts)
    ELSE Head(parts) \o sep \o Join(sep, Tail(parts))

\* the whitespace str.split() and str.strip() remove: of the characters that can be
\* written here, the ASCII ones, those Python holds for whitespace, which are the tab,
\* the line feed, the vertical tab, the form feed, the carriage return, the four
\* separators 0x1C..0x1F and the space
IsSpace(c) ==
    c \in {"\t", "\n", "", "\f", "\r", "", "", "", "", " "}

RECURSIVE SplitFrom(_, _, _)
\* str.split() with no argument: the maximal runs of non-whitespace characters
SplitFrom(s, i, word) ==
    IF i > Len(s) THEN (IF word = <<>> THEN <<>> ELSE <<word>>)
    ELSE IF IsSpace(s[i])
         THEN (IF word = <<>> THEN <<>> ELSE <<word>>) \o SplitFrom(s, i + 1, <<>>)
         ELSE SplitFrom(s, i + 1, Append(word, s[i]))

Split(s) == SplitFrom(s, 1, <<>>)

(***************************************************************************)
(* helpers/mingle_readings.py                                              *)
(***************************************************************************)
MULTIPLE_READING_SEP == "."

SplitFurigana(head, reading, suffix) ==
    [kind |-> "SplitFurigana", head |-> head, reading |-> reading, suffix |-> suffix]

\* class NoFurigana(str): the text itself, with two properties added
NoFurigana(text) == [kind |-> "NoFurigana", text |-> text]

\* part.head: NoFurigana.head returns self
PartHead(part) == IF part.kind = "NoFurigana" THEN part.text ELSE part.head

PartReadingNoAlias(part) == IF part.kind = "NoFurigana" THEN <<>> ELSE part.reading

\* part.reading: in NoFurigana, `reading = head` makes it the same property
PartReading(part) == IF part.kind = "NoFurigana" THEN PartHead(part) ELSE part.reading

\* hasattr(part, "suffix"): str has no attribute suffix, and NoFurigana defines none
HasSuffix(part) == part.kind = "SplitFurigana"

\* the loop without its break: the last "[" and the last "]" of the text
ScanBracketsNoBreak(text, i, furigana_start) ==
    LET opens == {p \in i..(Len(text) - 1) : text[p + 1] = "["}
        closes == {p \in i..(Len(text) - 1) : text[p + 1] = "]"}
        last(S, default) == IF S = {} THEN default ELSE CHOOSE p \in S : \A q \in S : q <= p
    IN  <<last(opens, furigana_start), last(closes, -1)>>

RECURSIVE ScanBrackets(_, _, _)
\* the for loop of find_head_reading_suffix from Python position i on:
\* <<furigana_start, furigana_end>> when it ends
ScanBrackets(text, i, furigana_start) ==
    IF i >= Len(text) THEN <<furigana_start, -1>>
    ELSE LET c == text[i + 1]
             start == IF c = "[" THEN i ELSE furigana_start
         IN  IF c = "]" THEN <<start, i>> ELSE ScanBrackets(text, i + 1, start)

\* the test `0 < furigana_start < furigana_end`
FuriganaFound(furigana_start, furigana_end) ==
    0 < furigana_start /\ furigana_start < furigana_end

find_head_reading_suffix(text) ==
    LET se == ScanBrackets(text, 0, -1)
        furigana_start == se[1]
        furigana_end == se[2]
    IN  IF FuriganaFound(furigana_start, furigana_end)
        THEN SplitFurigana(Slice(text, 0, furigana_start),
                           Slice(text, furigana_start + 1, furigana_end),
                           SliceFrom(text, furigana_end + 1))
        ELSE NoFurigana(text)

RECURSIVE iter_split_parts(_)
\* the parts the generator yields, in order
iter_split_parts(text) ==
    IF text = <<>> THEN <<>>
    ELSE LET part == find_head_reading_suffix(text)
         IN  IF part.kind = "NoFurigana" THEN <<part>>
             ELSE <<part>> \o iter_split_parts(part.suffix)

RECURSIVE DecomposeFrom(_, _, _)
\* the for loop of decompose_word over parts[num..]: acc is <<head, reading, suffix>>
DecomposeFrom(parts, num, acc) ==
    IF num > Len(parts) THEN acc
    ELSE LET part == parts[num]
         IN  IF part.kind = "NoFurigana" /\ num - 1 > 0
             THEN DecomposeFrom(parts, num + 1,
                                <<acc[1], acc[2], acc[3] \o part.text>>)
             ELSE DecomposeFrom(parts, num + 1,
                                <<acc[1] \o PartHead(part), acc[2] \o PartReading(part), acc[3]>>)

decompose_word(text) ==
    LET acc == DecomposeFrom(iter_split_parts(text), 1, <<<<>>, <<>>, <<>>>>)
    IN  SplitFurigana(acc[1], acc[2], acc[3])

IsBracket(c) == c \in {"[", "]"}

RECURSIVE NextBracket(_, _)
\* the first position >= i (1-based) of a bracket in s, Len(s) + 1 when there is none
NextBracket(s, i) ==
    IF i > Len(s) THEN i
    ELSE IF IsBracket(s[i]) THEN i ELSE NextBracket(s, i + 1)

\* fixup: m.group().replace(" ", MULTIPLE_READING_SEP)
fixup(group) ==
    [i \in 1..Len(group) |-> IF group[i] = " " THEN MULTIPLE_READING_SEP ELSE group[i]]

RECURSIVE TieFrom(_, _)
\* re.sub(r"\[[^\[\]]+?]", fixup, s) from 1-based position i on: a match is a "[",
\* one or more characters that are not brackets, and a "]"
TieFrom(s, i) ==
    IF i > Len(s) THEN <<>>
    ELSE IF s[i] = "["
         THEN LET j == NextBracket(s, i + 1)
              IN  IF j <= Len(s) /\ s[j] = "]" /\ j > i + 1
                  THEN fixup(SubSeq(s, i, j)) \o TieFrom(s, j + 1)
                  ELSE <<s[i]>> \o TieFrom(s, i + 1)
         ELSE <<s[i]>> \o TieFrom(s, i + 1)

tie_inside_furigana(s) == TieFrom(s, 1)

whitespace_split(furigana_notation) == Split(tie_inside_furigana(furigana_notation))

pairsFirstOnly(seq) == IF Len(seq) < 2 THEN <<>> ELSE <<<<seq[1], seq[2]>>>>

\* pairs(seq): zip(seq, seq[1:])
pairs(seq) ==
    IF Len(seq) < 2 THEN <<>> ELSE [i \in 1..(Len(seq) - 1) |-> <<seq[i], seq[i + 1]>>]

DictFromKeysKeepAll(keys, acc) == acc \o keys

RECURSIVE DictFromKeys(_, _)
\* list(dict.fromkeys(keys)): each key once, in the order of its first occurrence
DictFromKeys(keys, acc) ==
    IF keys = <<>> THEN acc
    ELSE IF \E i \in 1..Len(acc) : acc[i] = Head(keys)
         THEN DictFromKeys(Tail(keys), acc)
         ELSE DictFromKeys(Tail(keys), Append(acc, Head(keys)))

DefaultSep == <<",", " ">>

\* one turn of the loop `for first, *rest in zip(*split)`: the string appended to packs
MinglePack(column, sep) ==
    LET first == decompose_word(column[1])
        readings == [k \in 1..Len(column) |-> decompose_word(column[k]).reading]
        words_furigana == Join(sep, DictFromKeys(readings, <<>>))
    IN  IF words_furigana # first.head
        THEN <<" ">> \o first.head \o <<"[">> \o words_furigana \o <<"]">> \o first.suffix
        ELSE first.head

\* the number of tuples zip(*lists) yields: the length of the shortest list
ZipLen(lists) ==
    CHOOSE n \in {Len(lists[k]) : k \in 1..Len(lists)} :
        \A k \in 1..Len(lists) : n <= Len(lists[k])

\* `assert len(words_furigana) > 1` comes first
mingle_readings(words_furigana, sep) ==
    LET split == [k \in 1..Len(words_furigana) |-> whitespace_split(words_furigana[k])]
        prs == pairs(split)
    IN  IF ~(Len(words_furigana) > 1)
        THEN Raised("AssertionError")
        ELSE IF \E i \in 1..Len(prs) : Len(prs[i][1]) # Len(prs[i][2])
        THEN Returned(words_furigana[1])
        ELSE Returned(Concat([p \in 1..ZipLen(split) |->
                                 MinglePack([k \in 1..Len(split) |-> split[k][p]], sep)]))

(***************************************************************************)
(* helpers/common_kana.py                                                  *)
(***************************************************************************)
\* mecab_controller.to_katakana, imported as _: hiragana folded to katakana, every
\* other character kept
to_katakana(s) ==
    [i \in 1..Len(s) |-> CASE s[i] = "a" -> "A"
                           [] s[i] = "e" -> "E"
                           [] OTHER -> s[i]]

RECURSIVE AdjustLoop(_, _, _, _)
\* the while loop of adjust_reading: <<idx_headword, idx_reading>> when it ends,
\* <<>> when an index is out of range
AdjustLoop(headword, headword_reading, idx_headword, idx_reading) ==
    IF ~IndexInRange(headword, idx_headword - 1)
       \/ ~IndexInRange(headword_reading, idx_reading - 1)
    THEN <<>>
    ELSE IF to_katakana(<<At(headword, idx_headword - 1)>>)
            = to_katakana(<<At(headword_reading, idx_reading - 1)>>)
         THEN AdjustLoop(headword, headword_reading, idx_headword - 1, idx_reading - 1)
         ELSE <<idx_headword, idx_reading>>

\* return headword_reading[:idx_reading] + raw_word[idx_headword:]
AdjustTail(raw_word, headword, headword_reading, idx) ==
    SliceTo(headword_reading, idx[2]) \o SliceFrom(raw_word, idx[1])

adjust_reading(raw_word, headword, headword_reading) ==
    IF to_katakana(headword) = to_katakana(headword_reading) THEN Returned(raw_word)
    ELSE IF to_katakana(headword) = to_katakana(raw_word) THEN Returned(headword_reading)
    ELSE LET idx == AdjustLoop(headword, headword_reading,
                               Len(headword), Len(headword_reading))
         IN  IF idx = <<>> THEN Raised("IndexError")
             ELSE Returned(AdjustTail(raw_word, headword, headword_reading, idx))

(***************************************************************************)
(* database.py                                                             *)
(***************************************************************************)
\* the fields of AccentEntry, in the order of the namedtuple
AccentEntryFields ==
    << "NID", "ID", "WAVname", "K_FLD", "ACT",
       "katakana_reading", "nhk", "kanjiexpr", "NHKexpr", "numberchars",
       "devoiced_pos", "nasalsoundpos", "majiri", "kaisi", "KWAV",
       "katakana_reading_alt", "akusentosuu", "bunshou", "accent" >>

RECURSIVE FirstAt(_, _, _)
\* where .*? followed by c ends: the first position >= i (1-based) of character c
\* in s with no line feed before it, as "." matches no line feed; 0 when there is none
FirstAt(s, c, i) ==
    IF i > Len(s) THEN 0
    ELSE IF s[i] = c THEN i
    ELSE IF s[i] = "\n" THEN 0
    ELSE FirstAt(s, c, i + 1)

RECURSIVE FindGroups(_, _, _, _)
\* re.findall of open .*? "," .*? close from position i on: a match starts at an
\* open, runs to the first comma after it and on to the first close after that
\* comma, all on one line; the search goes on after the match
FindGroups(s, open, close, i) ==
    IF i > Len(s) THEN <<>>
    ELSE IF s[i] # open THEN FindGroups(s, open, close, i + 1)
    ELSE LET comma == FirstAt(s, ",", i + 1)
             end == IF comma = 0 THEN 0 ELSE FirstAt(s, close, comma + 1)
         IN  IF end = 0 THEN FindGroups(s, open, close, i + 1)
             ELSE <<SubSeq(s, i, end)>> \o FindGroups(s, open, close, end + 1)

RECURSIVE Replace(_, _, _, _)
\* s.replace(old, new) from position i on, old not empty
Replace(s, old, new, i) ==
    IF i > Len(s) THEN <<>>
    ELSE IF i + Len(old) - 1 <= Len(s) /\ SubSeq(s, i, i + Len(old) - 1) = old
         THEN new \o Replace(s, old, new, i + Len(old))
         ELSE <<s[i]>> \o Replace(s, old, new, i + 1)

\* s.replace(',', ';')
CommasToSemicolons(s) == [i \in 1..Len(s) |-> IF s[i] = "," THEN ";" ELSE s[i]]

RECURSIVE EscapeSubEntries(_, _, _)
\* the loop `for s in sub_entries` from sub_entries[k] on
EscapeSubEntries(csv_line, sub_entries, k) ==
    IF k > Len(sub_entries) THEN csv_line
    ELSE EscapeSubEntries(
             Replace(csv_line, sub_entries[k], CommasToSemicolons(sub_entries[k]), 1),
             sub_entries, k + 1)

RECURSIVE SplitOn(_, _, _, _)
\* s.split(c) from position i on, field the part of the current field read so far
SplitOn(s, c, i, field) ==
    IF i > Len(s) THEN <<field>>
    ELSE IF s[i] = c THEN <<field>> \o SplitOn(s, c, i + 1, <<>>)
    ELSE SplitOn(s, c, i + 1, Append(field, s[i]))

\* s.strip()
Strip(s) ==
    LET keep == {i \in 1..Len(s) : ~IsSpace(s[i])}
        lo == CHOOSE i \in keep : \A j \in keep : i <= j
        hi == CHOOSE i \in keep : \A j \in keep : j <= i
    IN  IF keep = {} THEN <<>> ELSE SubSeq(s, lo, hi)

\* the line as it is split: the commas of the sub-entries replaced
EscapedLine(csv_line) ==
    LET stripped == Strip(csv_line)
        sub_entries == FindGroups(stripped, "{", "}", 1) \o FindGroups(stripped, "(", ")", 1)
    IN  EscapeSubEntries(stripped, sub_entries, 1)

\* AccentEntry(*fields) takes exactly 19 arguments and raises TypeError otherwise
make_accent_entry(csv_line) ==
    LET fields == SplitOn(EscapedLine(csv_line), ",", 1, <<>>)
    IN  IF Len(fields) = Len(AccentEntryFields)
        THEN Returned([n \in {AccentEntryFields[i] : i \in 1..Len(AccentEntryFields)} |->
                          fields[CHOOSE i \in 1..Len(AccentEntryFields) : AccentEntryFields[i] = n]])
        ELSE Raised("TypeError")

IsDigit(c) == c \in {"0", "1", "2", "3", "4", "5", "6", "7", "8", "9"}

DigitValue(c) ==
    CASE c = "0" -> 0 [] c = "1" -> 1 [] c = "2" -> 2 [] c = "3" -> 3 [] c = "4" -> 4
      [] c = "5" -> 5 [] c = "6" -> 6 [] c = "7" -> 7 [] c = "8" -> 8 [] c = "9" -> 9

RECURSIVE ParseInt(_, _)
\* the value of a string of digits, acc the value of the digits read so far
ParseInt(digits, acc) ==
    IF digits = <<>> THEN acc
    ELSE ParseInt(Tail(digits), 10 * acc + DigitValue(Head(digits)))

\* the whitespace int() skips at both ends of an ASCII string: the tab, the line
\* feed, the vertical tab, the form feed, the carriage return and the space
IsIntSpace(c) == c \in {"\t", "\n", "", "\f", "\r", " "}

\* text without the whitespace int() skips at both ends
IntStrip(text) ==
    LET keep == {i \in 1..Len(text) : ~IsIntSpace(text[i])}
        lo == CHOOSE i \in keep : \A j \in keep : i <= j
        hi == CHOOSE i \in keep : \A j \in keep : j <= i
    IN  IF keep = {} THEN <<>> ELSE SubSeq(text, lo, hi)

\* int(text) of a str: whitespace skipped at both ends, then a sign or none, then
\* digits, where one "_" may stand between two digits; ValueError otherwise
int(text) ==
    With(IntStrip(text), LAMBDA stripped :
    With(stripped # <<>> /\ stripped[1] \in {"+", "-"}, LAMBDA signed :
    With(IF signed THEN Tail(stripped) ELSE stripped, LAMBDA body :
        IF ~(/\ body # <<>>
             /\ IsDigit(body[1]) /\ IsDigit(body[Len(body)])
             /\ \A i \in 1..Len(body) :
                   \/ IsDigit(body[i])
                   \/ body[i] = "_" /\ IsDigit(body[i - 1]) /\ IsDigit(body[i + 1]))
        THEN Raised("ValueError")
        ELSE With(ParseInt(SelectSeq(body, IsDigit), 0), LAMBDA magnitude :
                 Returned(IF signed /\ stripped[1] = "-" THEN 0 - magnitude
                          ELSE magnitude)))))

\* expr.endswith('10')
EndsWith10(expr) ==
    Len(expr) >= 2 /\ expr[Len(expr) - 1] = "1" /\ expr[Len(expr)] = "0"

\* the positions as a list, in the order of the code, or the ValueError of int(pos)
format_nasal_or_devoiced_positions(expr) ==
    LET rest == IF EndsWith10(expr) THEN SubSeq(expr, 1, Len(expr) - 2) ELSE expr
        result == IF EndsWith10(expr) THEN <<10>> ELSE <<>>
    IN  With(SelectSeq(SplitOn(rest, "0", 1, <<>>), LAMBDA pos : pos # <<>>), LAMBDA runs :
        With([i \in 1..Len(runs) |-> int(runs[i])], LAMBDA ints :
            IF \E i \in 1..Len(runs) : ints[i].raised # None
            THEN Raised("ValueError")
            ELSE Returned(result \o [i \in 1..Len(runs) |-> ints[i].value])))

\* '<span class="overline">'
OverlineOpen ==
    <<"<", "s", "p", "a", "n", " ", "c", "l", "a", "s", "s", "=", "\"", "o",
      "v", "e", "r", "l", "i", "n", "e", "\"", ">">>

\* '</span>'
SpanClose ==
    <<"<", "/", "s", "p", "a", "n", ">">>

\* '</span>&#42780;'
Downstep ==
    <<"<", "/", "s", "p", "a", "n", ">", "&", "#", "4", "2", "7", "8", "0",
      ";">>

\* '<span class="nasal">&#176;</span>'
NasalMark ==
    <<"<", "s", "p", "a", "n", " ", "c", "l", "a", "s", "s", "=", "\"", "n",
      "a", "s", "a", "l", "\"", ">", "&", "#", "1", "7", "6", ";", "<", "/",
      "s", "p", "a", "n", ">">>

\* f'<span class="nopron">{c}</span>'
NoPron(c) ==
    <<"<", "s", "p", "a", "n", " ", "c", "l", "a", "s", "s", "=", "\"", "n",
      "o", "p", "r", "o", "n", "\"", ">">>
    \o <<c>> \o SpanClose

InList(x, list) == \E i \in 1..Len(list) : list[i] = x

\* the flag left untouched where the pitch falls
FlagAfterDownstepKept(acc, overline_flag) == overline_flag

\* `if acc == 2: ... overline_flag = False`
FlagAfterDownstep(acc, overline_flag) == IF acc = 2 THEN FALSE ELSE overline_flag

RECURSIVE FormatLoop(_, _, _, _, _, _)
\* the for loop of format_entry from mora idx (0-based) on, when int(acc_pattern[i])
\* raises nothing: the strings appended to result_str, the closing of a span left
\* open included
FormatLoop(kana, acc_pattern, nasal, devoiced, idx, overline_flag) ==
    IF idx >= Len(kana)
    THEN (IF overline_flag THEN <<SpanClose>> ELSE <<>>)
    ELSE With(int(<<acc_pattern[idx + 1]>>).value, LAMBDA acc :
         LET opened == ~overline_flag /\ acc > 0
             flag1 == overline_flag \/ opened
             closed == flag1 /\ acc = 0
             flag2 == flag1 /\ ~closed
         IN  (IF opened THEN <<OverlineOpen>> ELSE <<>>)
             \o (IF closed THEN <<SpanClose>> ELSE <<>>)
             \o (IF InList(idx + 1, devoiced) THEN <<NoPron(kana[idx + 1])>>
                                               ELSE << <<kana[idx + 1]>> >>)
             \o (IF InList(idx + 1, nasal) THEN <<NasalMark>> ELSE <<>>)
             \o (IF acc = 2 THEN <<Downstep>> ELSE <<>>)
             \o With(FlagAfterDownstep(acc, flag2), LAMBDA flag :
                      FormatLoop(kana, acc_pattern, nasal, devoiced, idx + 1, flag)))

\* "0" * n: the empty string when n <= 0
Zeros(n) == IF n <= 0 THEN <<>> ELSE [i \in 1..n |-> "0"]

\* the strings format_entry appends to result_str, in order, or the error it
\* raises: the ValueError of int(pos) when the two lists of positions are made,
\* before the loop starts, or the ValueError of int(acc_pattern[i]) at a mora
FormatPieces(e) ==
    LET kana == e.katakana_reading_alt
        acc_pattern == Zeros(Len(kana) - Len(e.accent)) \o e.accent
    IN  With(format_nasal_or_devoiced_positions(e.nasalsoundpos), LAMBDA nasal :
        With(format_nasal_or_devoiced_positions(e.devoiced_pos), LAMBDA devoiced :
            IF nasal.raised # None THEN nasal
            ELSE IF devoiced.raised # None THEN devoiced
            ELSE IF \E i \in 1..Len(kana) : int(<<acc_pattern[i]>>).raised # None
            THEN Raised("ValueError")
            ELSE Returned(FormatLoop(kana, acc_pattern, nasal.value, devoiced.value,
                                     0, FALSE))))

format_entry(e) ==
    With(FormatPieces(e), LAMBDA pieces :
        IF pieces.raised # None THEN pieces ELSE Returned(Concat(pieces.value)))

\* the value appended whether or not the list holds it
AppendAlways(list, value) == Append(list, value)

\* `if value not in list: list.append(value)`
AppendIfNew(list, value) == IF InList(value, list) THEN list ELSE Append(list, value)

\* a dict in insertion order: a sequence of [key, values], every key once
DictHas(dict, key) == \E i \in 1..Len(dict) : dict[i].key = key

\* temp_dict[key] = temp_dict.get(key, []), then the append of a new value
Register(dict, key, value) ==
    LET d == IF DictHas(dict, key) THEN dict
             ELSE Append(dict, [key |-> key, values |-> <<>>])
    IN  [i \in 1..Len(d) |->
            IF d[i].key = key
            THEN [key |-> key, values |-> AppendIfNew(d[i].values, value)]
            ELSE d[i]]

RECURSIVE BuildDict(_, _, _)
\* the loop `for entry in entries` of build_database from entries[n] on, when
\* format_entry raises nothing
BuildDict(entries, n, temp_dict) ==
    IF n > Len(entries) THEN temp_dict
    ELSE LET entry == entries[n]
         IN  With(<<entry.katakana_reading, format_entry(entry).value>>, LAMBDA value :
             With(Register(Register(temp_dict, entry.nhk, value), entry.kanjiexpr, value),
                  LAMBDA dict : BuildDict(entries, n + 1, dict)))

\* "%s\t%s\t%s\n" % (key, kana, pron): a line of the derivative file
WriteRow(key, kana, pron) == key \o <<"\t">> \o kana \o <<"\t">> \o pron \o <<"\n">>

\* the lines written for temp_dict, key by key in insertion order
DictRows(temp_dict) ==
    Concat([i \in 1..Len(temp_dict) |->
               [j \in 1..Len(temp_dict[i].values) |->
                   WriteRow(temp_dict[i].key, temp_dict[i].values[j][1],
                            temp_dict[i].values[j][2])]])

RECURSIVE ReadLines(_, _)
\* `for line in f` on a file opened for reading as text, from position i (1-based)
\* of its content on: the lines with their line feed, a carriage return, alone or
\* before a line feed, read as a line feed
ReadLines(text, i) ==
    LET breaks == {j \in i..Len(text) : text[j] \in {"\n", "\r"}}
        j == CHOOSE b \in breaks : \A c \in breaks : b <= c
        next == IF text[j] = "\r" /\ j < Len(text) /\ text[j + 1] = "\n" THEN j + 2 ELSE j + 1
    IN  IF i > Len(text) THEN <<>>
        ELSE IF breaks = {} THEN <<SubSeq(text, i, Len(text))>>
        ELSE <<Append(SubSeq(text, i, j - 1), "\n")>> \o ReadLines(text, next)

\* build_database on a corpus file given as the pieces of its content: the lines it
\* writes, or the error of the first line that is no AccentEntry, or, every line
\* parsed, the error of the first entry format_entry fails on
build_database(content) ==
    With(ReadLines(Concat(content), 1), LAMBDA lines :
    With([n \in 1..Len(lines) |-> make_accent_entry(lines[n])], LAMBDA parsed :
        IF \E n \in 1..Len(lines) : parsed[n].raised # None
        THEN Raised("TypeError")
        ELSE IF \E n \in 1..Len(lines) : format_entry(parsed[n].value).raised # None
        THEN Raised("ValueError")
        ELSE With([n \in 1..Len(lines) |-> parsed[n].value], LAMBDA entries :
                 Returned(DictRows(BuildDict(entries, 1, <<>>))))))

\* line.strip().split('\t'): the whole line stripped, then cut at its tabs
RowFields(line) == SplitOn(Strip(line), "\t", 1, <<>>)

\* acc_dict[key] = acc_dict.get(key, []), then the append of a new pitch_html; a
\* dict is compared without its order, so it is a function
Remember(acc_dict, key, pitch_html) ==
    LET old == IF key \in DOMAIN acc_dict THEN acc_dict[key] ELSE <<>>
    IN  [k \in (DOMAIN acc_dict) \cup {key} |->
            IF k = key THEN AppendIfNew(old, pitch_html) ELSE acc_dict[k]]

RECURSIVE ReadRows(_, _, _)
\* the loop `for line in f` of read_derivative from lines[n] on
ReadRows(lines, n, acc_dict) ==
    IF n > Len(lines) THEN Returned(acc_dict)
    ELSE With(RowFields(lines[n]), LAMBDA fields :
             IF Len(fields) # 3 THEN Raised("ValueError")
             ELSE With(Remember(Remember(acc_dict, fields[1], fields[3]),
                                fields[2], fields[3]),
                       LAMBDA dict : ReadRows(lines, n + 1, dict)))

\* read_derivative on a derivative file given as the pieces of its content
read_derivative(content) ==
    With(ReadLines(Concat(content), 1), LAMBDA lines : ReadRows(lines, 1, <<>>))

(***************************************************************************)
(* find_head_reading_suffix applied to every text of at most MaxLen        *)
(* characters.                                                             *)
(***************************************************************************)
ParseAlphabet == {"k", "a", "[", "]"}

DbIdle ==
    /\ corpus = Absent
    /\ derivative = Absent
    /\ pickle = Absent
    /\ returned = NotCalled

InitParse ==
    /\ pc = "start"
    /\ arg \in Strs(ParseAlphabet, MaxLen)
    /\ res = None
    /\ DbIdle

CallFind ==
    /\ pc = "start"
    /\ pc' = "done"
    /\ res' = find_head_reading_suffix(arg)
    /\ UNCHANGED <<arg, corpus, derivative, pickle, returned>>

NextParse == CallFind

SpecParse == InitParse /\ [][NextParse]_vars

(***************************************************************************)
(* mingle_readings applied to 1..MaxNotations notations, each made of      *)
(* 0..MaxTokens tokens of TokenPool, a space before each token.  One token  *)
(* lists two readings, with a space between them inside the brackets.      *)
(***************************************************************************)
TokenPool ==
    { <<"k", "[", "a", " ", "e", "]", "e">>,
      <<"e">> }

Notations ==
    { Concat([i \in 1..Len(ts) |-> <<" ">> \o ts[i]]) :
        ts \in UNION {[1..n -> TokenPool] : n \in 0..MaxTokens} }

InitMingle ==
    /\ pc = "start"
    /\ arg \in UNION {[1..n -> Notations] : n \in 1..MaxNotations}
    /\ res = None
    /\ DbIdle

CallMingle ==
    /\ pc = "start"
    /\ pc' = "done"
    /\ res' = mingle_readings(arg, DefaultSep)
    /\ UNCHANGED <<arg, corpus, derivative, pickle, returned>>

NextMingle == CallMingle

SpecMingle == InitMingle /\ [][NextMingle]_vars

(***************************************************************************)
(* adjust_reading applied to every raw word, headword and reading of at    *)
(* most MaxWord characters.                                                *)
(***************************************************************************)
KanaAlphabet == {"a", "A", "k"}

InitAdjust ==
    /\ pc = "start"
    /\ arg \in [raw_word : Strs(KanaAlphabet, MaxWord),
                 headword : Strs(KanaAlphabet, MaxWord),
                 headword_reading : Strs(KanaAlphabet, MaxWord)]
    /\ res = None
    /\ DbIdle

CallAdjust ==
    /\ pc = "start"
    /\ pc' = "done"
    /\ res' = adjust_reading(arg.raw_word, arg.headword, arg.headword_reading)
    /\ UNCHANGED <<arg, corpus, derivative, pickle, returned>>

NextAdjust == CallAdjust

SpecAdjust == InitAdjust /\ [][NextAdjust]_vars

(***************************************************************************)
(* format_entry applied to every reading of at most MaxMora morae, accent  *)
(* string of at most MaxMora digits and position codes of at most MaxCode  *)
(* digits, and to an accent string and a position code that is no number.  *)
(***************************************************************************)
AccentStrings == Strs({"0", "1", "2"}, MaxMora) \cup {<<"x">>}

PositionCodes == Strs({"0", "1"}, MaxCode) \cup {<<"x">>}

InitFormat ==
    /\ pc = "start"
    /\ arg \in [katakana_reading_alt : Strs({"A"}, MaxMora),
                 accent : AccentStrings,
                 nasalsoundpos : PositionCodes,
                 devoiced_pos : PositionCodes]
    /\ res = None
    /\ DbIdle

CallFormat ==
    /\ pc = "start"
    /\ pc' = "done"
    /\ res' = [pieces |-> FormatPieces(arg), html |-> format_entry(arg)]
    /\ UNCHANGED <<arg, corpus, derivative, pickle, returned>>

NextFormat == CallFormat

SpecFormat == InitFormat /\ [][NextFormat]_vars

(***************************************************************************)
(* make_accent_entry applied to corpus lines: a free part of at most       *)
(* MaxSeg characters, then 17 or 18 fields "x", then the line break.       *)
(***************************************************************************)
CsvAlphabet == {"x", ",", "(", ")", "{", "}"}

RECURSIVE Padding(_)
Padding(k) == IF k = 0 THEN <<>> ELSE <<",", "x">> \o Padding(k - 1)

InitEntry ==
    /\ pc = "start"
    /\ \E seg \in Strs(CsvAlphabet, MaxSeg) :
         \E k \in {Len(AccentEntryFields) - 2, Len(AccentEntryFields) - 1} :
            arg = seg \o Padding(k) \o <<"\n">>
    /\ res = None
    /\ DbIdle

CallMakeEntry ==
    /\ pc = "start"
    /\ pc' = "done"
    /\ res' = [escaped |-> EscapedLine(arg), entry |-> make_accent_entry(arg)]
    /\ UNCHANGED <<arg, corpus, derivative, pickle, returned>>

NextEntry == CallMakeEntry

SpecEntry == InitEntry /\ [][NextEntry]_vars

(***************************************************************************)
(* build_database applied to every corpus of at most MaxEntries lines of   *)
(* CorpusLines.                                                            *)
(***************************************************************************)
\* a corpus line of 19 fields; its 13th field holds a comma in parentheses
CorpusLine(katakana_reading, nhk, kanjiexpr, devoiced_pos, nasalsoundpos, accent) ==
    Join(<<",">>,
         << <<"1">>, <<"1">>, <<"x">>, <<"x">>, <<"x">>,
            katakana_reading, nhk, kanjiexpr, <<"x">>, <<"1">>,
            devoiced_pos, nasalsoundpos, <<"(", "x", ",", "x", ")">>, <<"x">>, <<"x">>,
            katakana_reading, <<"1">>, <<"x">>, accent >>)
    \o <<"\n">>

CorpusLines ==
    { CorpusLine(<<"A">>, <<"A">>, <<"k">>, <<"0">>, <<"0">>, <<"1">>),
      CorpusLine(<<"A">>, <<"A">>, <<"k">>, <<"0">>, <<"0">>, <<"2">>),
      CorpusLine(<<"A">>, <<"A">>, <<"A">>, <<"0">>, <<"0">>, <<"1">>),
      CorpusLine(<<"A", "E">>, <<"A", "E">>, <<"k">>, <<"1">>, <<"0">>, <<"1", "0">>) }

InitBuild ==
    /\ pc = "start"
    /\ arg \in Strs(CorpusLines, MaxEntries)
    /\ res = None
    /\ DbIdle

CallBuild ==
    /\ pc = "start"
    /\ pc' = "done"
    /\ res' = build_database(arg)
    /\ UNCHANGED <<arg, corpus, derivative, pickle, returned>>

NextBuild == CallBuild

SpecBuild == InitBuild /\ [][NextBuild]_vars

(***************************************************************************)
(* The database files over time: the corpus is replaced or removed, the    *)
(* derivative file is removed or rebuilt, and init() is called.            *)
(***************************************************************************)
\* two well-formed lines, a line of two fields, a line whose nhk field is empty, and
\* a line whose nasal position code is no number
DbCorpusLines ==
    { CorpusLine(<<"A">>, <<"A">>, <<"k">>, <<"0">>, <<"0">>, <<"1">>),
      CorpusLine(<<"A">>, <<"A">>, <<"k">>, <<"0">>, <<"0">>, <<"2">>),
      <<"x", ",", "x", "\n">>,
      CorpusLine(<<"A">>, <<>>, <<"k">>, <<"0">>, <<"0">>, <<"1">>),
      CorpusLine(<<"A">>, <<"A">>, <<"k">>, <<"0">>, <<"x">>, <<"1">>) }

DbCorpora == Strs(DbCorpusLines, MaxDbEntries)

InitDb ==
    /\ pc = "start"
    /\ arg = None
    /\ res = None
    /\ corpus \in {File(c) : c \in DbCorpora}
    /\ derivative = Absent
    /\ pickle = Absent
    /\ returned = NotCalled

\* the corpus file is replaced by another one
ReplaceCorpus ==
    /\ \E c \in DbCorpora : corpus' = File(c) /\ corpus' # corpus
    /\ returned' = NotCalled
    /\ UNCHANGED <<pc, arg, res, derivative, pickle>>

\* the corpus file is removed
RemoveCorpus ==
    /\ corpus.exists
    /\ corpus' = Absent
    /\ returned' = NotCalled
    /\ UNCHANGED <<pc, arg, res, derivative, pickle>>

\* the derivative file is removed
RemoveDerivative ==
    /\ derivative.exists
    /\ derivative' = Absent
    /\ returned' = NotCalled
    /\ UNCHANGED <<pc, arg, res, corpus, pickle>>

\* build_database() with its default dest_path: dest_path is opened for writing
\* only once every line of the corpus is parsed
Rebuild ==
    /\ corpus.exists
    /\ \E built \in {build_database(corpus.content)} :
          derivative' = IF built.raised = None THEN File(built.value) ELSE derivative
    /\ returned' = NotCalled
    /\ UNCHANGED <<pc, arg, res, corpus, pickle>>

\* init(), the accent_dict folder present: the error when neither the corpus nor the
\* derivative file is there
InitRaises ==
    /\ ~corpus.exists /\ ~derivative.exists
    /\ returned' = Raised("IOError")
    /\ UNCHANGED <<pc, arg, res, corpus, derivative, pickle>>

\* init() otherwise: the derivative file built when missing, then the pickle loaded
\* when there is one, and written from the derivative file when there is none.
\* An error of build_database leaves init() before any file is written.  The pickle
\* is opened for writing before read_derivative() is called, so an error of
\* read_derivative leaves an empty pickle, on which pickle.load raises EOFError.
InitLoads ==
    /\ corpus.exists \/ derivative.exists
    /\ \E built \in {IF derivative.exists THEN Returned(derivative.content)
                      ELSE build_database(corpus.content)} :
          IF built.raised # None
          THEN /\ returned' = built
               /\ UNCHANGED <<derivative, pickle>>
          ELSE /\ derivative' = File(built.value)
               /\ IF pickle.exists
                  THEN /\ returned' = pickle.content
                       /\ pickle' = pickle
                  ELSE \E read \in {read_derivative(built.value)} :
                          /\ returned' = read
                          /\ pickle' = File(IF read.raised = None THEN read
                                            ELSE Raised("EOFError"))
    /\ UNCHANGED <<pc, arg, res, corpus>>

NextDb ==
    \/ ReplaceCorpus
    \/ RemoveCorpus
    \/ RemoveDerivative
    \/ Rebuild
    \/ InitRaises
    \/ InitLoads

SpecDb == InitDb /\ [][NextDb]_vars

(***************************************************************************)
(* Claims about find_head_reading_suffix (SpecParse).                      *)
(***************************************************************************)
NoChar(s, chars) == \A i \in 1..Len(s) : s[i] \notin chars

\* arg is head + "[" + reading + "]" + suffix, the "[" at i and the "]" at j (1-based)
HeadAt(i) == SubSeq(arg, 1, i - 1)
ReadingAt(i, j) == SubSeq(arg, i + 1, j - 1)
SuffixAt(j) == SubSeq(arg, j + 1, Len(arg))

IsTripleAt(i, j) == i < j /\ arg[i] = "[" /\ arg[j] = "]" /\ ReadingAt(i, j) # <<>>

\* C1 as stated: for every (head, reading, suffix) with a non-empty reading,
\* find_head_reading_suffix(head + "[" + reading + "]" + suffix) is
\* SplitFurigana(head, reading, suffix).
C1_AnyTriple ==
    pc = "done" =>
        \A i, j \in 1..Len(arg) :
            IsTripleAt(i, j) =>
                res = SplitFurigana(HeadAt(i), ReadingAt(i, j), SuffixAt(j))

\* C1 amended: the same, for a non-empty head without "]" and a non-empty reading
\* without "[" and "]"; the suffix is any string.
C1_Unambiguous ==
    pc = "done" =>
        \A i, j \in 1..Len(arg) :
            ( /\ IsTripleAt(i, j)
              /\ HeadAt(i) # <<>>
              /\ NoChar(HeadAt(i), {"]"})
              /\ NoChar(ReadingAt(i, j), {"[", "]"}) ) =>
                res = SplitFurigana(HeadAt(i), ReadingAt(i, j), SuffixAt(j))

\* the text "k[[a]", whose head holds a "[", was split
C1_Witness ==
    /\ pc = "done"
    /\ arg = <<"k", "[", "[", "a", "]">>
    /\ res = SplitFurigana(<<"k", "[">>, <<"a">>, <<>>)

\* no "[", no "]", or the first "]" before any "["
Malformed(text) ==
    \/ NoChar(text, {"["})
    \/ NoChar(text, {"]"})
    \/ \E j \in 1..Len(text) : text[j] = "]" /\ NoChar(SubSeq(text, 1, j - 1), {"[", "]"})

\* C5 as stated: a text with malformed brackets gives a NoFurigana whose head is
\* the whole text and whose reading and suffix are both empty.
C5_EmptyReadingAndSuffix ==
    (pc = "done" /\ Malformed(arg)) =>
        /\ res.kind = "NoFurigana"
        /\ PartHead(res) = arg
        /\ PartReading(res) = <<>>
        /\ HasSuffix(res)
        /\ res.suffix = <<>>

\* C5 amended: a text with malformed brackets gives a NoFurigana whose head and
\* reading are both the whole text, and which has no suffix attribute.
C5_ReadingIsText ==
    (pc = "done" /\ Malformed(arg)) =>
        /\ res.kind = "NoFurigana"
        /\ PartHead(res) = arg
        /\ PartReading(res) = arg
        /\ ~HasSuffix(res)

\* a text whose first "]" comes before its "[" was parsed
C5_Witness ==
    /\ pc = "done"
    /\ arg = <<"k", "]", "[", "a", "]">>
    /\ res.kind = "NoFurigana"

(***************************************************************************)
(* Claims about mingle_readings (SpecMingle).                              *)
(***************************************************************************)
\* the elements of seq at the positions where an element occurs for the first time
RECURSIVE FirstOccurrences(_, _)
FirstOccurrences(seq, i) ==
    IF i > Len(seq) THEN <<>>
    ELSE (IF \A j \in 1..(i - 1) : seq[j] # seq[i] THEN <<seq[i]>> ELSE <<>>)
         \o FirstOccurrences(seq, i + 1)

TokensOf(k) == whitespace_split(arg[k])

AtLeastTwo == Len(arg) >= 2

SameTokenCounts == \A k, l \in 1..Len(arg) : Len(TokensOf(k)) = Len(TokensOf(l))

\* what the claim says is emitted for token position p
ExpectedPack(p) ==
    LET first == decompose_word(TokensOf(1)[p])
        R == Join(DefaultSep,
                  FirstOccurrences([k \in 1..Len(arg) |-> decompose_word(TokensOf(k)[p]).reading], 1))
    IN  IF R = first.head THEN first.head
        ELSE <<" ">> \o first.head \o <<"[">> \o R \o <<"]">> \o first.suffix

\* C2: for at least two notations of the same number of tokens, the output is,
\* position by position in the original order, " head[R]suffix" or the bare head,
\* R the distinct readings in order of first occurrence joined by sep, bare exactly
\* when R = head.
C2_MingledByPosition ==
    (pc = "done" /\ AtLeastTwo /\ SameTokenCounts) =>
        res = Returned(Concat([p \in 1..Len(TokensOf(1)) |-> ExpectedPack(p)]))

\* three notations of two tokens: a reading that repeats, and a bare head
C2_Witness ==
    /\ pc = "done"
    /\ arg = << <<" ", "k", "[", "a", " ", "e", "]", "e", " ", "e">>,
                <<" ", "e", " ", "e">>,
                <<" ", "k", "[", "a", " ", "e", "]", "e", " ", "e">> >>
    /\ res = Returned(<<" ", "k", "[", "a", ".", "e", ",", " ", "e", "]", "e", "e">>)

\* C3: when two of at least two notations differ in their number of tokens, the
\* output is the first notation, unchanged, and no error is raised.
C3_FallbackToFirst ==
    (pc = "done" /\ AtLeastTwo /\ ~SameTokenCounts) => res = Returned(arg[1])

\* the first two notations have one token each and the third has two
C3_Witness ==
    /\ pc = "done"
    /\ Len(arg) = 3
    /\ Len(TokensOf(1)) = 1 /\ Len(TokensOf(2)) = 1 /\ Len(TokensOf(3)) = 2
    /\ res = Returned(arg[1])

(***************************************************************************)
(* Claims about adjust_reading (SpecAdjust).                               *)
(***************************************************************************)
\* the third branch of adjust_reading is taken
Conjugated ==
    /\ to_katakana(arg.headword) # to_katakana(arg.headword_reading)
    /\ to_katakana(arg.headword) # to_katakana(arg.raw_word)

\* the n last characters of headword and of headword_reading agree when normalized
TrailingRun(n) ==
    /\ n <= Len(arg.headword)
    /\ n <= Len(arg.headword_reading)
    /\ \A d \in 1..n :
          to_katakana(<<arg.headword[Len(arg.headword) - d + 1]>>)
          = to_katakana(<<arg.headword_reading[Len(arg.headword_reading) - d + 1]>>)

\* the length of the longest shared trailing run
LongestRun == CHOOSE n \in 0..Len(arg.headword) : TrailingRun(n) /\ ~TrailingRun(n + 1)

\* C4: when the headword is neither its own reading nor the raw word, and headword
\* and reading share a non-empty trailing run, adjust_reading returns
\* headword_reading[:r] + raw_word[h:], h and r where the longest run starts.
C4_StemAligned ==
    (pc = "done" /\ Conjugated /\ LongestRun > 0) =>
        res = Returned(SubSeq(arg.headword_reading, 1, Len(arg.headword_reading) - LongestRun)
                       \o SliceFrom(arg.raw_word, Len(arg.headword) - LongestRun))

\* headword and reading are not empty and end in different characters
NoSharedRun ==
    /\ arg.headword # <<>>
    /\ arg.headword_reading # <<>>
    /\ LongestRun = 0

\* C9: when the headword is neither its own reading nor the raw word, and headword
\* and reading end in different characters, adjust_reading fails.  The code runs
\* no such test: the loop is skipped and the last line returns
\* headword_reading + raw_word[len(headword):], as for headword "k" read "a" and
\* raw word "ka", which gives "aa".
C9_FailsWithoutSharedRun ==
    (pc = "done" /\ Conjugated /\ NoSharedRun) => res.raised # None

(***************************************************************************)
(* Claims about format_entry (SpecFormat).                                 *)
(***************************************************************************)
ClosesOverline(piece) == piece \in {SpanClose, Downstep}

RECURSIVE Alternates(_, _, _)
\* from pieces[i] on, with an overline span open or not: an overline span is opened
\* only when none is open, closed only when one is open, and none is open at the end
Alternates(pieces, i, open) ==
    IF i > Len(pieces) THEN ~open
    ELSE IF pieces[i] = OverlineOpen THEN ~open /\ Alternates(pieces, i + 1, TRUE)
    ELSE IF ClosesOverline(pieces[i]) THEN open /\ Alternates(pieces, i + 1, FALSE)
    ELSE Alternates(pieces, i + 1, open)

\* C6: whenever format_entry produces a string, it is made of the pieces appended,
\* and in it overline spans open and close in strict alternation and none is open
\* at the end.
C6_OverlineAlternates ==
    (pc = "done" /\ res.html.raised = None) =>
        /\ res.pieces.raised = None
        /\ res.html.value = Concat(res.pieces.value)
        /\ Alternates(res.pieces.value, 1, FALSE)

\* accent "120": a span opened on the first mora, closed by the downstep after the
\* second, and nothing left to close on the third
C6_Witness ==
    /\ pc = "done"
    /\ arg.katakana_reading_alt = <<"A", "A", "A">>
    /\ arg.accent = <<"1", "2", "0">>
    /\ arg.nasalsoundpos = <<>> /\ arg.devoiced_pos = <<"1">>
    /\ res.pieces = Returned(<<OverlineOpen, NoPron("A"), <<"A">>, Downstep, <<"A">>>>)

(***************************************************************************)
(* Claims about make_accent_entry (SpecEntry).                             *)
(***************************************************************************)
RECURSIVE Nearest(_, _, _, _)
\* the nearest position to p, going by step, that holds one of chars; 0 when none does
Nearest(s, p, step, chars) ==
    IF p < 1 \/ p > Len(s) THEN 0
    ELSE IF s[p] \in chars THEN p ELSE Nearest(s, p + step, step, chars)

\* position p of s lies inside a group open ... close that holds no other open or
\* close of its kind
InGroup(s, p, open, close) ==
    LET i == Nearest(s, p - 1, -1, {open, close})
        j == Nearest(s, p + 1, 1, {open, close})
    IN  i # 0 /\ j # 0 /\ s[i] = open /\ s[j] = close

InsideGroup(s, p) == InGroup(s, p, "{", "}") \/ InGroup(s, p, "(", ")")

\* the line with exactly the commas inside a group replaced by semicolons
GroupCommasEscaped(s) ==
    [p \in 1..Len(s) |-> IF s[p] = "," /\ InsideGroup(s, p) THEN ";" ELSE s[p]]

TopLevelFields(s) == SplitOn(GroupCommasEscaped(s), ",", 1, <<>>)

\* C10: make_accent_entry replaces by a semicolon exactly the commas inside a brace
\* or parenthesis group, and yields an AccentEntry, of the top-level fields, exactly
\* when the line has 19 of them.
C10_OnlyGroupCommasEscaped ==
    pc = "done" =>
        LET fields == TopLevelFields(Strip(arg))
        IN  /\ res.escaped = GroupCommasEscaped(Strip(arg))
            /\ (res.entry.raised = None) <=> (Len(fields) = 19)
            /\ res.entry.raised = None =>
                  \A i \in 1..Len(AccentEntryFields) :
                      res.entry.value[AccentEntryFields[i]] = fields[i]

(***************************************************************************)
(* Claims about build_database (SpecBuild).                                *)
(***************************************************************************)
EntryOf(n) == make_accent_entry(arg[n]).value
PairOf(n) == <<EntryOf(n).katakana_reading, format_entry(EntryOf(n)).value>>
KeysOf(n) == {EntryOf(n).nhk, EntryOf(n).kanjiexpr}

\* the row of the pair of corpus line n under key
RowOf(key, n) == WriteRow(key, PairOf(n)[1], PairOf(n)[2])

\* corpus line n is where its pair is first seen under key
FirstSeen(key, n) ==
    /\ key \in KeysOf(n)
    /\ \A m \in 1..(n - 1) : ~(key \in KeysOf(m) /\ PairOf(m) = PairOf(n))

\* where row is among the rows written
RowIndex(rows, row) == CHOOSE i \in 1..Len(rows) : rows[i] = row

\* C8: the rows written hold every entry's (katakana, html) pair under both of its
\* keys, no row twice, and the pairs of one key in the order the corpus first shows
\* them.
C8_RowsDistinctInOrder ==
    pc = "done" =>
        LET rows == res.value
        IN  /\ res.raised = None
            /\ \A n \in 1..Len(arg) : \A key \in KeysOf(n) :
                    \E i \in 1..Len(rows) : rows[i] = RowOf(key, n)
            /\ \A i \in 1..Len(rows) :
                    \E n \in 1..Len(arg) : \E key \in KeysOf(n) : rows[i] = RowOf(key, n)
            /\ \A i, j \in 1..Len(rows) : i # j => rows[i] # rows[j]
            /\ \A n, m \in 1..Len(arg) : \A key \in KeysOf(n) \cap KeysOf(m) :
                    (n < m /\ FirstSeen(key, n) /\ FirstSeen(key, m)) =>
                        RowIndex(rows, RowOf(key, n)) < RowIndex(rows, RowOf(key, m))

\* a corpus of three lines, the third repeating the first: key "A" has two pairs
C8_Witness ==
    /\ pc = "done"
    /\ Len(arg) = 3 /\ arg[1] = arg[3] /\ arg[1] # arg[2]
    /\ Cardinality(KeysOf(1)) = 2 /\ KeysOf(2) = KeysOf(1)
    /\ Len(res.value) = 4

(***************************************************************************)
(* Claims about init (SpecDb).                                             *)
(***************************************************************************)
\* C7: the mapping init() returns is the mapping read from the derivative file as it
\* is when init() returns: the pickle is used only when it is not stale.
C7_InitReturnsDerivative ==
    returned.raised = None => returned = read_derivative(derivative.content)

=============================================================================
